---- MODULE Spec2Model ----
(***************************************************************************)
(* Model of the two interactive utilities of the repository:               *)
(*   src/blender4.4.3.py  - the render configuration utility               *)
(*   src/png_to_video.py  - the PNG sequence to video utility              *)
(*                                                                         *)
(* Four specifications share the module:                                   *)
(*   SpecPrompt - one call of get_user_input / select_from_options         *)
(*   Spec       - main() of the render utility                             *)
(*   SpecVideo  - main() of the video utility                              *)
(*   SpecExtension - ensure_file_extension applied twice to any name       *)
(*                                                                         *)
(* Text is a sequence of one-character strings, so that strip(), lower(),  *)
(* endswith(), int() and float() are computed character by character.      *)
(* An optional value (Python None or a value) is a sequence of length 0 or *)
(* 1: << >> is None, <<v>> is the value v.                                 *)
(***************************************************************************)
EXTENDS Integers, Sequences, FiniteSets, TLC

\* State of one call of the prompt engine (SpecPrompt).
VARIABLES
    pcP,        \* "await_input" | "have_line" | "returned"
    pCall,      \* the call: [fn, default, value_type, options]
    pLine,      \* the line input() returned, until the loop discards it
    pPrompts,   \* input() calls made so far by this call
    pResult,    \* << >> while the call runs, <<v>> once it has returned v
    pLastReject \* why the loop last went round: "none" | "ValueError" | "out_of_range"

promptVars == <<pcP, pCall, pLine, pPrompts, pResult, pLastReject>>

\* State of the render utility (Spec).
VARIABLES
    pc,             \* where main() of blender4.4.3.py stands
    mode,           \* what configure_render_mode returned, "none" before
    DEFAULT_CONFIG, \* the module-level dictionary of that name
    config,         \* the configuration under construction / returned
    asked,          \* the prompts get_custom_config has displayed
    host,           \* << >> until the program first asks the host, then
                    \* <<[hasCycles, devices]>>: whether "cycles" is in
                    \* preferences.addons, and the devices get_devices() finds
    prefs,          \* host: cycles preferences [compute_device_type, devices]
    scene,          \* host: bpy.context.scene, as far as read or written
    applyLog,       \* preference operations of apply_config, in order
    exitCode,       \* << >> or <<code>> once sys.exit(code) ran
    outcome,        \* "running" | "declined" | "rendered" | "raised"
    confirm,        \* << >> or <<line>>: the answer to "start rendering?"
    raisedIn        \* the function an exception came from, "none" before

renderVars == <<pc, mode, DEFAULT_CONFIG, config, asked, host,
                prefs, scene, applyLog, exitCode, outcome, confirm, raisedIn>>

\* State of the video utility (SpecVideo). The locals are those of the
\* running call of create_video_from_pngs; the per-run records have one entry
\* for each call of main(), the recursive ones included.
VARIABLES
    vpc,              \* where png_to_video.py stands
    probe,            \* per run: how subprocess.run(["ffmpeg", "-version"]) ended
    prompted,         \* the prompts displayed, as <<run, prompt>>
    encodes,          \* per run: calls of subprocess.run(command)
    input_folder,     \* local: text
    folder_exists,    \* << >> or <<b>>: what os.path.exists(input_folder) said
    output_file,      \* local: text, after ensure_file_extension
    frame_rate,       \* local: << >> or <<n>>
    codec_choice,     \* local: menu label, "none" before
    codec,            \* local: text
    quality_choice,   \* local: menu label, "none" before
    quality_settings, \* local: << >> or <<[preset, crf]>>
    command,          \* local: the argument vector, << >> before it is built
    success,          \* << >> or <<b>>: what create_video_from_pngs returned
    videoExit         \* << >> or <<code>>: the process exit code

videoVars == <<vpc, probe, prompted, encodes, input_folder, folder_exists,
               output_file, frame_rate, codec_choice, codec, quality_choice,
               quality_settings, command, success, videoExit>>

\* The locals of create_video_from_pngs before its first statement.
FreshLocals ==
    /\ input_folder = << >>
    /\ folder_exists = << >>
    /\ output_file = << >>
    /\ frame_rate = << >>
    /\ codec_choice = "none"
    /\ codec = << >>
    /\ quality_choice = "none"
    /\ quality_settings = << >>
    /\ command = << >>
    /\ success = << >>

\* The video utility not started, for the specifications that do not run it.
VideoIdle ==
    /\ vpc = "not_started"
    /\ probe = << >>
    /\ prompted = {}
    /\ encodes = << >>
    /\ FreshLocals
    /\ videoExit = << >>

\* State of one double application of ensure_file_extension (SpecExtension).
VARIABLES
    filename,   \* the name handed to ensure_file_extension
    once,       \* << >> or <<ensure_file_extension(filename)>>
    twice       \* << >> or <<ensure_file_extension(once[1])>>

extensionVars == <<filename, once, twice>>

\* No name under normalisation, for the specifications that do not run it.
ExtensionIdle ==
    /\ filename = << >>
    /\ once = << >>
    /\ twice = << >>

\* ------------------------------------------------------------------ bounds

\* Longest line the user types at a prompt of SpecPrompt.
MaxLineLen == 3
\* Most input() calls made during one call of SpecPrompt.
MaxPrompts == 3
\* Longest option list handed to select_from_options in SpecPrompt.
MaxOptions == 3
\* Most calls of main() of png_to_video.py in one process (the first and the
\* recursive ones).
MaxRuns == 2
\* Longest file name handed to ensure_file_extension in SpecExtension.
MaxNameLen == 5

\* ------------------------------------------------------- Python text helpers

DigitChars == <<"0", "1", "2", "3", "4", "5", "6", "7", "8", "9">>

Digits == {DigitChars[i] : i \in 1..Len(DigitChars)}

DigitVal(c) == (CHOOSE i \in 1..Len(DigitChars) : DigitChars[i] = c) - 1

\* Characters str.strip() removes (the only whitespace the user types here).
Whitespace == {" "}

RECURSIVE lstrip(_)
lstrip(s) ==
    IF s = << >> THEN s
    ELSE IF Head(s) \in Whitespace THEN lstrip(Tail(s)) ELSE s

RECURSIVE rstrip(_)
rstrip(s) ==
    IF s = << >> THEN s
    ELSE IF s[Len(s)] \in Whitespace THEN rstrip(SubSeq(s, 1, Len(s) - 1)) ELSE s

\* str.strip()
strip(s) == rstrip(lstrip(s))

\* The literal without its optional sign.
Unsigned(s) == IF s # << >> /\ Head(s) \in {"+", "-"} THEN Tail(s) ELSE s

Negative(s) == s # << >> /\ Head(s) = "-"

AllDigits(s) == s # << >> /\ \A i \in 1..Len(s) : s[i] \in Digits

RECURSIVE DigitsVal(_)
DigitsVal(s) ==
    IF s = << >> THEN 0
    ELSE 10 * DigitsVal(SubSeq(s, 1, Len(s) - 1)) + DigitVal(s[Len(s)])

\* int(s) succeeds: surrounding whitespace, an optional sign, decimal digits.
int_ok(s) == AllDigits(Unsigned(strip(s)))

\* int(s) when it succeeds.
int_val(s) ==
    LET t == strip(s)
        n == DigitsVal(Unsigned(t))
    IN  IF Negative(t) THEN 0 - n ELSE n

\* A float is m / 10^e, with no trailing zero among its e fraction digits.
RECURSIVE NormFloat(_, _)
NormFloat(m, e) ==
    IF e > 0 /\ m % 10 = 0 THEN NormFloat(m \div 10, e - 1) ELSE [m |-> m, e |-> e]

DotsOf(s) == {i \in 1..Len(s) : s[i] = "."}

WithoutDot(s) == SelectSeq(s, LAMBDA c : c # ".")

\* float(s) succeeds: surrounding whitespace, an optional sign, digits with at
\* most one decimal point and at least one digit.
float_ok(s) ==
    LET b == Unsigned(strip(s))
    IN  /\ Cardinality(DotsOf(b)) <= 1
        /\ AllDigits(WithoutDot(b))

\* float(s) when it succeeds.
float_val(s) ==
    LET t == strip(s)
        b == Unsigned(t)
        d == DotsOf(b)
        e == IF d = {} THEN 0 ELSE Len(b) - (CHOOSE i \in d : TRUE)
        n == DigitsVal(WithoutDot(b))
    IN  NormFloat(IF Negative(t) THEN 0 - n ELSE n, e)

\* value_type(user_input) does not raise ValueError.
Coerces(value_type, s) ==
    CASE value_type = "int"   -> int_ok(s)
      [] value_type = "float" -> float_ok(s)
      [] OTHER                -> TRUE

\* value_type(user_input)
Coerce(value_type, s) ==
    CASE value_type = "int"   -> int_val(s)
      [] value_type = "float" -> float_val(s)
      [] OTHER                -> s

\* ------------------------------------------------------------ prompt engine

\* A plausible slip: "if not user_input and default:", which loses a default
\* of 0 (and any other falsy default).
get_user_input_falsy_default(line, default, value_type) ==
    LET user_input == strip(line)
    IN  IF /\ Len(user_input) = 0
           /\ Len(default) > 0
           /\ ~(value_type = "int" /\ default[1] = 0)
        THEN default
        ELSE IF Coerces(value_type, user_input)
             THEN <<Coerce(value_type, user_input)>>
             ELSE << >>

\* One pass of the loop of get_user_input on the line input() returned:
\* <<v>> when the call returns v, << >> when ValueError sends it round again.
get_user_input(line, default, value_type) ==
    LET user_input == strip(line)
    IN  IF Len(user_input) = 0 /\ Len(default) > 0
        THEN default
        ELSE IF Coerces(value_type, user_input)
             THEN <<Coerce(value_type, user_input)>>
             ELSE << >>

\* A plausible slip: the 0-based test "0 <= choice < len(options)" kept with
\* the 1-based lookup.
select_from_options_zero_based(line, options, default_index) ==
    LET choice == get_user_input(line, <<default_index>>, "int")
    IN  IF Len(choice) = 0 THEN << >>
        ELSE IF 0 <= choice[1] /\ choice[1] < Len(options)
             THEN <<options[choice[1] + 1]>>
             ELSE << >>

\* One pass of the loop of select_from_options on the line input() returned:
\* <<option>> when the call returns, << >> when it prompts again.
select_from_options(line, options, default_index) ==
    LET choice == get_user_input(line, <<default_index>>, "int")
    IN  IF Len(choice) = 0 THEN << >>
        ELSE IF 1 <= choice[1] /\ choice[1] <= Len(options)
             THEN <<options[choice[1]]>>
             ELSE << >>

\* ------------------------------------------- the calls SpecPrompt makes

\* Characters the user types in SpecPrompt.
Alphabet == {"0", "1", "2", "-", ".", " ", "x"}

Lines == UNION {[1..n -> Alphabet] : n \in 0..MaxLineLen}

OptionNames == <<"opt_a", "opt_b", "opt_c", "opt_d", "opt_e", "opt_f">>

IntDefaults == {<< >>, <<0>>, <<2>>}

FloatDefaults == {<< >>, <<[m |-> 1, e |-> 2]>>}

StrDefaults == {<< >>, << <<"o">> >>}

GetCall(default, value_type) ==
    [fn |-> "get_user_input", default |-> default, value_type |-> value_type,
     options |-> << >>]

SelectCall(n, default_index) ==
    [fn |-> "select_from_options", default |-> <<default_index>>,
     value_type |-> "int", options |-> SubSeq(OptionNames, 1, n)]

PromptIdle ==
    /\ pcP = "returned"
    /\ pCall = GetCall(<< >>, "str")
    /\ pLine = << >>
    /\ pPrompts = 0
    /\ pResult = << >>
    /\ pLastReject = "none"

\* ------------------------------------------------------ more text helpers

UpperChars == <<"A", "B", "C", "D", "E", "F", "G", "H", "I", "J", "K", "L", "M",
                "N", "O", "P", "Q", "R", "S", "T", "U", "V", "W", "X", "Y", "Z">>

LowerChars == <<"a", "b", "c", "d", "e", "f", "g", "h", "i", "j", "k", "l", "m",
                "n", "o", "p", "q", "r", "s", "t", "u", "v", "w", "x", "y", "z">>

LowerChar(c) ==
    IF \E j \in 1..Len(UpperChars) : UpperChars[j] = c
    THEN LowerChars[CHOOSE j \in 1..Len(UpperChars) : UpperChars[j] = c]
    ELSE c

\* str.lower()
lower(s) == [i \in 1..Len(s) |-> LowerChar(s[i])]

\* Index of the last c in s, 0 when there is none (str.rfind(c) + 1).
LastIndexOf(s, c) ==
    LET at == {i \in 1..Len(s) : s[i] = c}
    IN  IF at = {} THEN 0 ELSE CHOOSE i \in at : \A j \in at : j <= i

RECURSIVE rstrip_slash(_)
rstrip_slash(s) ==
    IF s = << >> THEN s
    ELSE IF s[Len(s)] = "/" THEN rstrip_slash(SubSeq(s, 1, Len(s) - 1)) ELSE s

\* os.path.dirname (posixpath)
dirname(path) ==
    LET head == SubSeq(path, 1, LastIndexOf(path, "/"))
    IN  IF head # << >> /\ \E i \in 1..Len(head) : head[i] # "/"
        THEN rstrip_slash(head)
        ELSE head

\* os.path.basename (posixpath)
basename(path) == SubSeq(path, LastIndexOf(path, "/") + 1, Len(path))

\* s.split("_")[0]
split_first(s) ==
    LET at == {i \in 1..Len(s) : s[i] = "_"}
    IN  IF at = {} THEN s
        ELSE SubSeq(s, 1, (CHOOSE i \in at : \A j \in at : i <= j) - 1)

\* os.path.join(a, b) (posixpath)
path_join(a, b) ==
    IF b # << >> /\ Head(b) = "/" THEN b
    ELSE IF a = << >> \/ a[Len(a)] = "/" THEN a \o b
    ELSE a \o <<"/">> \o b

\* ------------------------------------------------ render utility: the data

DefaultOutputDir == <<"/", "w", "o", "r", "k", "s", "p", "a", "c", "e", "/", "o", "u", "t">>

DefaultFilenamePrefix == <<"f", "r", "a", "m", "e">>

\* The literal DEFAULT_CONFIG. noise_threshold 0.01 is 1 / 10^2.
DefaultConfig ==
    [render_engine |-> "CYCLES",
     output_dir |-> DefaultOutputDir,
     filename_prefix |-> DefaultFilenamePrefix,
     file_format |-> "PNG",
     color_mode |-> "RGB",
     start_frame |-> 1,
     end_frame |-> 10,
     resolution_x |-> 1920,
     resolution_y |-> 1080,
     resolution_percent |-> 100,
     samples |-> 64,
     tile_size |-> 256,
     eevee_samples |-> 64,
     denoiser |-> "OPENIMAGEDENOISE",
     device_type |-> "CUDA",
     max_bounces |-> 6,
     eevee_ambient_occlusion |-> TRUE,
     eevee_bloom |-> TRUE,
     eevee_ssr |-> TRUE,
     eevee_volumetric |-> TRUE,
     noise_threshold |-> [m |-> 1, e |-> 2],
     denoising_samples |-> 0,
     ffmpeg_format |-> "MPEG4",
     ffmpeg_codec |-> "H264",
     ffmpeg_quality |-> "MEDIUM"]

\* The option lists of configure_render_mode and get_custom_config. The menu
\* texts are written in ASCII: "yes" / "no" stand for the two answers of the
\* effect toggles, "none" for the third denoiser entry.
ModeOptions == <<"Blend file", "script defaults", "custom">>

EngineOptions == <<"Cycles", "Eevee", "Eevee Next">>

FileFormats == <<"PNG", "JPEG", "EXR", "TIFF", "FFMPEG">>

ColorModes == <<"BW", "RGB", "RGBA">>

DenoiserOptions == <<"OpenImageDenoise", "OptiX", "none">>

YesNo == <<"yes", "no">>

FfmpegFormats == <<"MPEG4", "AVI", "QUICKTIME", "DV", "H264", "XVID", "FLV", "MKV", "OGG", "WEBM">>

FfmpegCodecs == <<"H264", "MPEG4", "MPEG2", "AV1", "VP9", "THEORA", "DNXHD", "PRORES", "FLASH", "FFV1">>

FfmpegQualities == <<"LOSSLESS", "PERC_LOSSLESS", "HIGH", "MEDIUM", "LOW">>

\* configure_render_mode: "Blend" in mode / the built-in marker in mode / else.
ModeOf(choice) ==
    CASE choice = "Blend file"      -> "blend"
      [] choice = "script defaults" -> "default"
      [] OTHER                      -> "custom"

\* get_custom_config: "Cycles" in choice / "Eevee Next" in choice / else.
EngineOf(choice) ==
    CASE choice = "Cycles"     -> "CYCLES"
      [] choice = "Eevee Next" -> "BLENDER_EEVEE_NEXT"
      [] OTHER                 -> "BLENDER_EEVEE"

\* get_custom_config: "Open" in choice / "Opti" in choice / else.
DenoiserOf(choice) ==
    CASE choice = "OpenImageDenoise" -> "OPENIMAGEDENOISE"
      [] choice = "OptiX"            -> "OPTIX"
      [] OTHER                       -> "NONE"

\* The prompts of get_custom_config, named by the configuration key they set.
StrSteps == {"output_dir", "filename_prefix"}

IntSteps == {"start_frame", "end_frame", "resolution_x", "resolution_y",
             "resolution_percent", "samples", "tile_size", "max_bounces",
             "denoising_samples", "eevee_samples"}

FloatSteps == {"noise_threshold"}

ValueSteps == StrSteps \cup IntSteps \cup FloatSteps

ToggleSteps == {"eevee_ambient_occlusion", "eevee_bloom", "eevee_ssr", "eevee_volumetric"}

FfmpegSteps == {"ffmpeg_format", "ffmpeg_codec", "ffmpeg_quality"}

ChoiceSteps == {"render_engine", "file_format", "color_mode"} \cup ToggleSteps \cup FfmpegSteps

CustomSteps == ValueSteps \cup ChoiceSteps \cup {"denoiser", "device_type"}

StepType(step) ==
    IF step \in IntSteps THEN "int" ELSE IF step \in FloatSteps THEN "float" ELSE "str"

StepOptions(step) ==
    CASE step = "render_engine" -> EngineOptions
      [] step = "file_format"   -> FileFormats
      [] step = "color_mode"    -> ColorModes
      [] step = "ffmpeg_format" -> FfmpegFormats
      [] step = "ffmpeg_codec"  -> FfmpegCodecs
      [] step = "ffmpeg_quality" -> FfmpegQualities
      [] OTHER                  -> YesNo

\* What get_custom_config stores for the option the menu returned.
StepValue(step, choice) ==
    CASE step = "render_engine" -> EngineOf(choice)
      [] step \in ToggleSteps   -> (choice = "yes")
      [] OTHER                  -> choice

\* A plausible slip: the FFmpeg block written as one more branch of the
\* engine test ("elif"), so that the ray-trace branch skips it.
AfterEngineBranch_exclusive(cfg) ==
    IF cfg.file_format = "FFMPEG" /\ cfg.render_engine # "CYCLES"
    THEN "ffmpeg_format"
    ELSE "apply_config"

\* What follows the engine-specific prompts: the FFmpeg prompts under
\* file_format FFMPEG, else the return of get_custom_config ("apply_config").
AfterEngineBranch(cfg) ==
    IF cfg.file_format = "FFMPEG" THEN "ffmpeg_format" ELSE "apply_config"

NextStep(step, cfg) ==
    CASE step = "output_dir"         -> "filename_prefix"
      [] step = "filename_prefix"    -> "render_engine"
      [] step = "render_engine"      -> "file_format"
      [] step = "file_format"        -> "start_frame"
      [] step = "start_frame"        -> "end_frame"
      [] step = "end_frame"          -> "resolution_x"
      [] step = "resolution_x"       -> "resolution_y"
      [] step = "resolution_y"       -> "resolution_percent"
      [] step = "resolution_percent" -> "color_mode"
      [] step = "color_mode"         ->
            IF cfg.render_engine = "CYCLES" THEN "samples" ELSE "eevee_samples"
      [] step = "samples"            -> "tile_size"
      [] step = "tile_size"          -> "max_bounces"
      [] step = "max_bounces"        -> "noise_threshold"
      [] step = "noise_threshold"    -> "denoising_samples"
      [] step = "denoising_samples"  -> "denoiser"
      [] step = "denoiser"           -> "device_type"
      [] step = "device_type"        -> AfterEngineBranch(cfg)
      [] step = "eevee_samples"      -> "eevee_ambient_occlusion"
      [] step = "eevee_ambient_occlusion" -> "eevee_bloom"
      [] step = "eevee_bloom"        -> "eevee_ssr"
      [] step = "eevee_ssr"          -> "eevee_volumetric"
      [] step = "eevee_volumetric"   -> AfterEngineBranch(cfg)
      [] step = "ffmpeg_format"      -> "ffmpeg_codec"
      [] step = "ffmpeg_codec"       -> "ffmpeg_quality"
      [] OTHER                       -> "apply_config"

\* ---------------------------------------- render utility: the host (bpy)

DeviceTypes == {"CPU", "CUDA", "OPTIX"}

\* The devices a host may have; a host reports any sub-list of them, each
\* with the `use` flag its saved preferences hold.
DeviceCatalogue ==
    <<[name |-> "cpu", type |-> "CPU"],
      [name |-> "gpu", type |-> "CUDA"],
      [name |-> "gpu", type |-> "OPTIX"]>>

RECURSIVE PickDevices(_, _, _)
PickDevices(i, S, use) ==
    IF i > Len(DeviceCatalogue) THEN << >>
    ELSE (IF i \in S
          THEN <<[name |-> DeviceCatalogue[i].name,
                  type |-> DeviceCatalogue[i].type, use |-> use]>>
          ELSE << >>) \o PickDevices(i + 1, S, use)

HostDeviceLists ==
    {PickDevices(1, S, use) : S \in SUBSET (1..Len(DeviceCatalogue)), use \in BOOLEAN}

SceneFields ==
    {"engine", "filepath", "file_format", "color_mode", "frame_start", "frame_end",
     "resolution_x", "resolution_y", "resolution_percentage",
     "cycles_samples", "cycles_tile_size", "cycles_max_bounces",
     "cycles_noise_threshold", "cycles_denoising_samples",
     "cycles_use_denoising", "cycles_denoiser",
     "eevee_taa_render_samples", "eevee_use_gtao", "eevee_use_bloom",
     "eevee_use_ssr", "eevee_use_volumetric",
     "ffmpeg_format", "ffmpeg_codec", "ffmpeg_quality",
     "ffmpeg_constant_rate_factor"}

\* The scene before the program has read or written any of it.
UntouchedScene == [f \in SceneFields |-> "untouched"]

\* Scenes a .blend file may hold when get_blend_config reads it. ffmpeg_quality
\* is << >> on a host whose ffmpeg settings have no `quality` attribute.
HostFilepaths ==
    {<< >>, <<"/", "t", "/">>, <<"/", "t", "/", "a", "_", "1">>, <<"s">>, <<"_", "x">>}

HostEngines == {"CYCLES", "BLENDER_EEVEE", "BLENDER_EEVEE_NEXT", "BLENDER_WORKBENCH"}

HostQualities ==
    {<< >>} \cup {<<FfmpegQualities[i]>> : i \in 1..Len(FfmpegQualities)} \cup {<<"VERYLOW">>}

HostScene(engine, filepath, file_format, quality) ==
    [engine |-> engine, filepath |-> filepath, file_format |-> file_format,
     color_mode |-> "RGBA", frame_start |-> 5, frame_end |-> 7,
     resolution_x |-> 1280, resolution_y |-> 720, resolution_percentage |-> 50,
     cycles_samples |-> 128, cycles_tile_size |-> 512, cycles_max_bounces |-> 12,
     cycles_noise_threshold |-> [m |-> 5, e |-> 2], cycles_denoising_samples |-> 4,
     cycles_use_denoising |-> FALSE, cycles_denoiser |-> "OPTIX",
     eevee_taa_render_samples |-> 16, eevee_use_gtao |-> FALSE,
     eevee_use_bloom |-> FALSE, eevee_use_ssr |-> FALSE,
     eevee_use_volumetric |-> FALSE,
     ffmpeg_format |-> "MKV", ffmpeg_codec |-> "AV1", ffmpeg_quality |-> quality,
     ffmpeg_constant_rate_factor |-> "HIGH"]

HostScenes ==
    {HostScene(e, p, f, q) :
        e \in HostEngines, p \in HostFilepaths, f \in {"PNG", "FFMPEG"}, q \in HostQualities}

\* The hosts the program may run on. The host is not the program's state:
\* what it holds is learnt when the program first asks, and is fixed from then.
Hosts ==
    {[hasCycles |-> TRUE, devices |-> l] : l \in HostDeviceLists}
        \cup {[hasCycles |-> FALSE, devices |-> << >>]}

HostView == IF Len(host) = 0 THEN Hosts ELSE {host[1]}

\* prefs.get_devices() on host h: the preferences list the devices h has.
get_devices(st, h) ==
    [st EXCEPT !.prefs.devices = h.devices, !.log = Append(@, "get_devices")]

\* get_device_info(): the list of {name, type, supported} it returns.
get_device_info(devices) ==
    [i \in 1..Len(devices) |-> [name |-> devices[i].name, type |-> devices[i].type,
                                supported |-> TRUE]]

\* f"{d['name']} ({d['type']})"
DeviceLabel(d) == <<d.name, d.type>>

\* ---------------------------------------------- render utility: dictionaries

\* A plausible slip: starting from an empty dictionary instead of a copy.
dict_copy_empty(d) == << >>

\* d.copy()
dict_copy(d) == d

\* d[key] = value
dict_set(d, key, value) ==
    [k \in DOMAIN d \cup {key} |-> IF k = key THEN value ELSE d[k]]

\* ---------------------------------------------- render utility: the exits

\* A plausible slip: a bare "except:" (or "except BaseException"), which also
\* catches the SystemExit of sys.exit(0).
except_clause_catches_all(exc) == TRUE

\* "except Exception" of main(): SystemExit is not an Exception.
except_clause_catches(exc) == exc # "SystemExit"

\* How the process ends when `exc` reaches the try of main(); `code` is the
\* argument of sys.exit for a SystemExit.
main_exit_code(exc, code) == IF except_clause_catches(exc) THEN 1 ELSE code

\* d.update(upd): several assignments d[key] = value at once.
dict_update(d, upd) ==
    [k \in DOMAIN d \cup DOMAIN upd |-> IF k \in DOMAIN upd THEN upd[k] ELSE d[k]]

\* ------------------------------------------- render utility: configuration

\* A plausible slip: the ray-trace keys read from the scene whatever the
\* engine is (the first engine test left out).
get_blend_config_unguarded(s) ==
    LET c1 == dict_update(dict_copy(DEFAULT_CONFIG),
                [render_engine |-> s.engine,
                 output_dir |-> IF dirname(s.filepath) # << >>
                                THEN dirname(s.filepath)
                                ELSE DEFAULT_CONFIG["output_dir"],
                 filename_prefix |-> IF split_first(basename(s.filepath)) # << >>
                                     THEN split_first(basename(s.filepath))
                                     ELSE DEFAULT_CONFIG["filename_prefix"],
                 file_format |-> s.file_format,
                 resolution_x |-> s.resolution_x,
                 resolution_y |-> s.resolution_y,
                 resolution_percent |-> s.resolution_percentage,
                 samples |-> s.cycles_samples,
                 tile_size |-> s.cycles_tile_size,
                 max_bounces |-> s.cycles_max_bounces,
                 noise_threshold |-> s.cycles_noise_threshold,
                 denoising_samples |-> s.cycles_denoising_samples])
        c2 == IF s.engine \in {"BLENDER_EEVEE", "BLENDER_EEVEE_NEXT"}
              THEN dict_update(c1,
                     [eevee_samples |-> s.eevee_taa_render_samples,
                      eevee_ambient_occlusion |-> s.eevee_use_gtao,
                      eevee_bloom |-> s.eevee_use_bloom,
                      eevee_ssr |-> s.eevee_use_ssr,
                      eevee_volumetric |-> s.eevee_use_volumetric])
              ELSE c1
    IN  IF c2["file_format"] = "FFMPEG"
        THEN dict_update(c2,
               [ffmpeg_format |-> s.ffmpeg_format,
                ffmpeg_codec |-> s.ffmpeg_codec,
                ffmpeg_quality |-> s.ffmpeg_quality[1]])
        ELSE c2

\* The configuration get_blend_config builds from scene s. (s.ffmpeg_quality
\* is read only under FFMPEG, where the action has checked that it exists.)
get_blend_config(s) ==
    LET c1 == dict_update(dict_copy(DEFAULT_CONFIG),
                [render_engine |-> s.engine,
                 output_dir |-> IF dirname(s.filepath) # << >>
                                THEN dirname(s.filepath)
                                ELSE DEFAULT_CONFIG["output_dir"],
                 filename_prefix |-> IF split_first(basename(s.filepath)) # << >>
                                     THEN split_first(basename(s.filepath))
                                     ELSE DEFAULT_CONFIG["filename_prefix"],
                 file_format |-> s.file_format,
                 resolution_x |-> s.resolution_x,
                 resolution_y |-> s.resolution_y,
                 resolution_percent |-> s.resolution_percentage])
        c2 == IF s.engine = "CYCLES"
              THEN dict_update(c1,
                     [samples |-> s.cycles_samples,
                      tile_size |-> s.cycles_tile_size,
                      max_bounces |-> s.cycles_max_bounces,
                      noise_threshold |-> s.cycles_noise_threshold,
                      denoising_samples |-> s.cycles_denoising_samples])
              ELSE IF s.engine \in {"BLENDER_EEVEE", "BLENDER_EEVEE_NEXT"}
              THEN dict_update(c1,
                     [eevee_samples |-> s.eevee_taa_render_samples,
                      eevee_ambient_occlusion |-> s.eevee_use_gtao,
                      eevee_bloom |-> s.eevee_use_bloom,
                      eevee_ssr |-> s.eevee_use_ssr,
                      eevee_volumetric |-> s.eevee_use_volumetric])
              ELSE c1
    IN  IF c2["file_format"] = "FFMPEG"
        THEN dict_update(c2,
               [ffmpeg_format |-> s.ffmpeg_format,
                ffmpeg_codec |-> s.ffmpeg_codec,
                ffmpeg_quality |-> s.ffmpeg_quality[1]])
        ELSE c2

\* get_default_config()
get_default_config == dict_copy(DEFAULT_CONFIG)

\* ------------------------------------------------ render utility: apply

\* A plausible slip: the fallback of .get() taken from the last table entry.
quality_map_fallback_low(tier) ==
    CASE tier = "LOSSLESS"      -> 0
      [] tier = "PERC_LOSSLESS" -> 18
      [] tier = "HIGH"          -> 20
      [] tier = "MEDIUM"        -> 23
      [] tier = "LOW"           -> 28
      [] OTHER                  -> 28

\* quality_map.get(tier, 23)
quality_map(tier) ==
    CASE tier = "LOSSLESS"      -> 0
      [] tier = "PERC_LOSSLESS" -> 18
      [] tier = "HIGH"          -> 20
      [] tier = "MEDIUM"        -> 23
      [] tier = "LOW"           -> 28
      [] OTHER                  -> 23

FilenamePattern(prefix) == prefix \o <<"_", "#", "#", "#", "#">>

\* The scene attributes apply_config writes for configuration cfg.
apply_scene(sc, cfg) ==
    LET s1 == [sc EXCEPT
                !.engine = cfg["render_engine"],
                !.filepath = path_join(cfg["output_dir"],
                                       FilenamePattern(cfg["filename_prefix"])),
                !.file_format = cfg["file_format"],
                !.color_mode = IF cfg["file_format"] \in {"PNG", "TIFF", "EXR"}
                               THEN cfg["color_mode"] ELSE "RGB",
                !.frame_start = cfg["start_frame"],
                !.frame_end = cfg["end_frame"],
                !.resolution_x = cfg["resolution_x"],
                !.resolution_y = cfg["resolution_y"],
                !.resolution_percentage = cfg["resolution_percent"]]
        s2 == IF cfg["render_engine"] = "CYCLES"
              THEN [s1 EXCEPT
                     !.cycles_samples = cfg["samples"],
                     !.cycles_tile_size = cfg["tile_size"],
                     !.cycles_max_bounces = cfg["max_bounces"],
                     !.cycles_noise_threshold = cfg["noise_threshold"],
                     !.cycles_denoising_samples = cfg["denoising_samples"],
                     !.cycles_use_denoising = (cfg["denoiser"] # "NONE"),
                     !.cycles_denoiser = IF cfg["denoiser"] # "NONE"
                                         THEN cfg["denoiser"] ELSE @]
              ELSE [s1 EXCEPT
                     !.eevee_taa_render_samples = cfg["eevee_samples"],
                     !.eevee_use_gtao = cfg["eevee_ambient_occlusion"],
                     !.eevee_use_bloom = cfg["eevee_bloom"],
                     !.eevee_use_ssr = cfg["eevee_ssr"],
                     !.eevee_use_volumetric = cfg["eevee_volumetric"]]
    IN  IF cfg["file_format"] = "FFMPEG"
        THEN [s2 EXCEPT
               !.ffmpeg_format = cfg["ffmpeg_format"],
               !.ffmpeg_codec = cfg["ffmpeg_codec"],
               !.ffmpeg_constant_rate_factor = quality_map(cfg["ffmpeg_quality"])]
        ELSE s2

\* The device section of apply_config works on st = [prefs, log]: the cycles
\* preferences and the operations done on them so far.

\* cycles_prefs.compute_device_type = "NONE" if CPU else device_type
set_compute_device_type(st, device_type) ==
    [st EXCEPT !.prefs.compute_device_type =
                   IF device_type = "CPU" THEN "NONE" ELSE device_type,
               !.log = Append(@, "compute_device_type")]

\* for device in cycles_prefs.devices: device.use = device.type == device_type
\* (both branches of the CPU test compare the device's type with device_type).
set_device_use(st, device_type) ==
    LET devices == st.prefs.devices
    IN  [st EXCEPT !.prefs.devices =
                       [i \in 1..Len(devices) |->
                           [devices[i] EXCEPT !.use = (devices[i].type = device_type)]],
                   !.log = @ \o [i \in 1..Len(devices) |-> "use"]]

\* A plausible slip: the device list is not refreshed after the type is set.
apply_devices_without_refresh(st, device_type, h) ==
    set_device_use(set_compute_device_type(st, device_type), device_type)

\* Lines 303-319 of apply_config: type, refresh, then the use flags.
apply_devices(st, device_type, h) ==
    set_device_use(get_devices(set_compute_device_type(st, device_type), h), device_type)

\* --------------------------------------------- render utility: the answers

\* Lines the user types at a menu of n options: nothing, not a number, 0,
\* each option's number, and the number after the last.
MenuAnswers(n) ==
    {<< >>, <<"x">>, <<"0">>} \cup {<<DigitChars[k + 1]>> : k \in 1..(n + 1)}

\* Lines the user types at each prompt of get_custom_config.
Answers(step) ==
    CASE step = "output_dir" -> {<< >>, <<"o">>}
      [] step \in StrSteps   -> {<< >>, <<" ">>}
      [] step = "start_frame" -> {<< >>, <<"x">>, <<"2">>}
      [] step \in IntSteps   -> {<< >>, <<"x">>}
      [] step \in FloatSteps -> {<< >>, <<"x">>, <<".", "5">>}
      [] step \in {"ffmpeg_format", "ffmpeg_codec"} ->
            {<< >>, <<"x">>, <<"2">>, <<"1", "1">>}
      [] OTHER               -> MenuAnswers(Len(StepOptions(step)))

\* Lines the user types at "start rendering? (y/n)".
ConfirmAnswers == {<<"y">>, <<"Y">>, <<"n">>, << >>, <<" ", "y">>, <<"y", "e", "s">>}

\* ------------------------------------------------ render utility: main()

Init ==
    /\ PromptIdle
    /\ VideoIdle
    /\ ExtensionIdle
    /\ pc = "select_mode"
    /\ mode = "none"
    /\ DEFAULT_CONFIG = DefaultConfig
    /\ config = << >>
    /\ asked = {}
    /\ host = << >>
    /\ prefs = [compute_device_type |-> "NONE", devices |-> << >>]
    /\ scene = UntouchedScene
    /\ applyLog = << >>
    /\ exitCode = << >>
    /\ outcome = "running"
    /\ confirm = << >>
    /\ raisedIn = "none"

\* Control reaches `step`: a prompt of get_custom_config is displayed, or
\* get_custom_config has returned ("apply_config").
GoTo(step) ==
    /\ pc' = step
    /\ asked' = IF step \in CustomSteps THEN asked \cup {step} ELSE asked

\* Exception exc reaches the try block of main() from function `where`.
Leave(exc, code, where) ==
    /\ pc' = "exited"
    /\ exitCode' = <<main_exit_code(exc, code)>>
    /\ outcome' = IF exc = "SystemExit" THEN "declined" ELSE "raised"
    /\ raisedIn' = where

StillRunning == UNCHANGED <<exitCode, outcome, raisedIn>>

\* configure_render_mode(): one answer at the mode menu.
configure_render_mode ==
    /\ pc = "select_mode"
    /\ \E line \in MenuAnswers(Len(ModeOptions)) :
         LET r == select_from_options(line, ModeOptions, 1)
         IN  IF Len(r) = 0
             THEN UNCHANGED <<pc, mode>>
             ELSE /\ mode' = ModeOf(r[1])
                  /\ pc' = CASE ModeOf(r[1]) = "blend"   -> "get_blend_config"
                             [] ModeOf(r[1]) = "default" -> "get_default_config"
                             [] OTHER                    -> "get_custom_config"
    /\ UNCHANGED <<DEFAULT_CONFIG, config, asked, host, prefs,
                   scene, applyLog, exitCode, outcome, confirm, raisedIn>>
    /\ UNCHANGED <<promptVars, videoVars, extensionVars>>

\* main(): config = get_blend_config(), on whatever scene the host holds.
main_blend ==
    /\ pc = "get_blend_config"
    /\ \E s \in HostScenes :
         /\ scene' = s
         /\ IF s.file_format = "FFMPEG" /\ Len(s.ffmpeg_quality) = 0
            THEN /\ Leave("AttributeError", 1, "get_blend_config")
                 /\ UNCHANGED config
            ELSE /\ config' = get_blend_config(s)
                 /\ pc' = "apply_config"
                 /\ StillRunning
    /\ UNCHANGED <<mode, DEFAULT_CONFIG, asked, host, prefs, applyLog, confirm>>
    /\ UNCHANGED <<promptVars, videoVars, extensionVars>>

\* main(): config = get_default_config()
main_default ==
    /\ pc = "get_default_config"
    /\ config' = get_default_config
    /\ pc' = "apply_config"
    /\ UNCHANGED <<mode, DEFAULT_CONFIG, asked, host, prefs,
                   scene, applyLog, exitCode, outcome, confirm, raisedIn>>
    /\ UNCHANGED <<promptVars, videoVars, extensionVars>>

\* get_custom_config() up to its first prompt.
custom_begin ==
    /\ pc = "get_custom_config"
    /\ config' = dict_copy(DEFAULT_CONFIG)
    /\ GoTo("output_dir")
    /\ UNCHANGED <<mode, DEFAULT_CONFIG, host, prefs,
                   scene, applyLog, exitCode, outcome, confirm, raisedIn>>
    /\ UNCHANGED <<promptVars, videoVars, extensionVars>>

\* get_custom_config(): one answer at a get_user_input prompt.
custom_value ==
    /\ pc \in ValueSteps
    /\ \E line \in Answers(pc) :
         LET r == get_user_input(line, <<DEFAULT_CONFIG[pc]>>, StepType(pc))
         IN  IF Len(r) = 0
             THEN UNCHANGED <<pc, config, asked>>
             ELSE /\ config' = dict_set(config, pc, r[1])
                  /\ GoTo(NextStep(pc, dict_set(config, pc, r[1])))
    /\ UNCHANGED <<mode, DEFAULT_CONFIG, host, prefs,
                   scene, applyLog, exitCode, outcome, confirm, raisedIn>>
    /\ UNCHANGED <<promptVars, videoVars, extensionVars>>

\* get_custom_config(): one answer at a select_from_options menu whose list
\* is fixed.
custom_choice ==
    /\ pc \in ChoiceSteps
    /\ \E line \in Answers(pc) :
         LET r == select_from_options(line, StepOptions(pc), 1)
         IN  IF Len(r) = 0
             THEN UNCHANGED <<pc, config, asked>>
             ELSE /\ config' = dict_set(config, pc, StepValue(pc, r[1]))
                  /\ GoTo(NextStep(pc, dict_set(config, pc, StepValue(pc, r[1]))))
    /\ UNCHANGED <<mode, DEFAULT_CONFIG, host, prefs,
                   scene, applyLog, exitCode, outcome, confirm, raisedIn>>
    /\ UNCHANGED <<promptVars, videoVars, extensionVars>>

\* get_custom_config(): one answer at the denoiser menu; once it is accepted
\* get_device_info() runs (KeyError without the cycles add-on) and the device
\* menu is displayed.
custom_denoiser ==
    /\ pc = "denoiser"
    /\ \E line \in Answers(pc) :
         LET r == select_from_options(line, DenoiserOptions, 1)
         IN  IF Len(r) = 0
             THEN UNCHANGED <<pc, config, asked, host, prefs, exitCode, outcome, raisedIn>>
             ELSE /\ config' = dict_set(config, "denoiser", DenoiserOf(r[1]))
                  /\ \E h \in HostView :
                       /\ host' = <<h>>
                       /\ IF h.hasCycles
                          THEN /\ prefs' = get_devices([prefs |-> prefs, log |-> << >>], h).prefs
                               /\ GoTo("device_type")
                               /\ StillRunning
                          ELSE /\ Leave("KeyError", 1, "get_custom_config")
                               /\ UNCHANGED <<asked, prefs>>
    /\ UNCHANGED <<mode, DEFAULT_CONFIG, scene, applyLog, confirm>>
    /\ UNCHANGED <<promptVars, videoVars, extensionVars>>

\* The loop after the device menu: the type of the first device whose label
\* is the chosen one.
device_type_of(devices, device_choice, cfg) ==
    LET hits == {i \in 1..Len(devices) : DeviceLabel(devices[i]) = device_choice}
    IN  IF hits = {} THEN cfg
        ELSE dict_set(cfg, "device_type",
                      devices[CHOOSE i \in hits : \A j \in hits : i <= j].type)

\* get_custom_config(): one answer at the device menu, whose options are the
\* devices get_device_info() returned.
custom_device ==
    /\ pc = "device_type"
    /\ \E line \in MenuAnswers(Len(prefs.devices)) :
         LET devices == get_device_info(prefs.devices)
             device_options == [i \in 1..Len(devices) |-> DeviceLabel(devices[i])]
             r == select_from_options(line, device_options, 1)
         IN  IF Len(r) = 0
             THEN UNCHANGED <<pc, config, asked>>
             ELSE /\ config' = device_type_of(devices, r[1], config)
                  /\ GoTo(NextStep(pc, device_type_of(devices, r[1], config)))
    /\ UNCHANGED <<mode, DEFAULT_CONFIG, host, prefs,
                   scene, applyLog, exitCode, outcome, confirm, raisedIn>>
    /\ UNCHANGED <<promptVars, videoVars, extensionVars>>

\* main(): scene = apply_config(config); os.makedirs at its end may fail.
main_apply ==
    /\ pc = "apply_config"
    /\ scene' = apply_scene(scene, config)
    /\ IF config["render_engine"] = "CYCLES"
       THEN \E h \in HostView :
              LET st0 == [prefs |-> prefs, log |-> << >>]
                  st1 == IF h.hasCycles
                         THEN apply_devices(st0, config["device_type"], h)
                         ELSE st0
              IN  /\ host' = <<h>>
                  /\ prefs' = st1.prefs
                  /\ applyLog' = st1.log
       ELSE UNCHANGED <<host, prefs, applyLog>>
    /\ \E makedirs_ok \in BOOLEAN :
         IF makedirs_ok
         THEN pc' = "confirm" /\ StillRunning
         ELSE Leave("OSError", 1, "apply_config")
    /\ UNCHANGED <<mode, DEFAULT_CONFIG, config, asked, confirm>>
    /\ UNCHANGED <<promptVars, videoVars, extensionVars>>

\* main(): the answer to "start rendering? (y/n)".
main_confirm ==
    /\ pc = "confirm"
    /\ \E line \in ConfirmAnswers :
         /\ confirm' = <<line>>
         /\ IF lower(line) = <<"y">>
            THEN pc' = "render_frames" /\ StillRunning
            ELSE Leave("SystemExit", 0, "confirm")
    /\ UNCHANGED <<mode, DEFAULT_CONFIG, config, asked, host,
                   prefs, scene, applyLog>>
    /\ UNCHANGED <<promptVars, videoVars, extensionVars>>

\* main(): render_frames(), then main() returns; the host's render may raise.
main_render ==
    /\ pc = "render_frames"
    /\ \E render_ok \in BOOLEAN :
         IF render_ok
         THEN /\ pc' = "returned"
              /\ outcome' = "rendered"
              /\ UNCHANGED <<exitCode, raisedIn>>
         ELSE Leave("RuntimeError", 1, "render_frames")
    /\ UNCHANGED <<mode, DEFAULT_CONFIG, config, asked, host,
                   prefs, scene, applyLog, confirm>>
    /\ UNCHANGED <<promptVars, videoVars, extensionVars>>

PromptOwner(at) ==
    CASE at = "select_mode" -> "configure_render_mode"
      [] at = "confirm"     -> "confirm"
      [] OTHER              -> "get_custom_config"

\* input() raises EOFError at any prompt when standard input has ended.
input_eof ==
    /\ pc \in {"select_mode", "confirm"} \cup CustomSteps
    /\ Leave("EOFError", 1, PromptOwner(pc))
    /\ UNCHANGED <<mode, DEFAULT_CONFIG, config, asked, host,
                   prefs, scene, applyLog, confirm>>
    /\ UNCHANGED <<promptVars, videoVars, extensionVars>>

Next ==
    \/ configure_render_mode
    \/ main_blend
    \/ main_default
    \/ custom_begin
    \/ custom_value
    \/ custom_choice
    \/ custom_denoiser
    \/ custom_device
    \/ main_apply
    \/ main_confirm
    \/ main_render
    \/ input_eof

\* --------------------------------------------- SpecPrompt: one call, any line

\* The render utility at rest, for the specifications that do not run it.
RenderIdle ==
    /\ pc = "returned"
    /\ mode = "none"
    /\ DEFAULT_CONFIG = DefaultConfig
    /\ config = << >>
    /\ asked = {}
    /\ host = << >>
    /\ prefs = [compute_device_type |-> "NONE", devices |-> << >>]
    /\ scene = UntouchedScene
    /\ applyLog = << >>
    /\ exitCode = << >>
    /\ outcome = "running"
    /\ confirm = << >>
    /\ raisedIn = "none"

InitPrompt ==
    /\ RenderIdle
    /\ VideoIdle
    /\ ExtensionIdle
    /\ pcP = "await_input"
    /\ pLine = << >>
    /\ pPrompts = 0
    /\ pResult = << >>
    /\ pLastReject = "none"
    /\ \/ \E d \in IntDefaults : pCall = GetCall(d, "int")
       \/ \E d \in FloatDefaults : pCall = GetCall(d, "float")
       \/ \E d \in StrDefaults : pCall = GetCall(d, "str")
       \/ \E n \in 0..MaxOptions, k \in 1..2 : pCall = SelectCall(n, k)

\* input(full_prompt) returns the next line the user typed.
input_line ==
    /\ pcP = "await_input"
    /\ pPrompts < MaxPrompts
    /\ \E line \in Lines : pLine' = line
    /\ pPrompts' = pPrompts + 1
    /\ pcP' = "have_line"
    /\ UNCHANGED <<pCall, pResult, pLastReject>>
    /\ UNCHANGED <<renderVars, videoVars, extensionVars>>

\* The rest of the loop body of get_user_input: return, or print and loop.
get_user_input_loop ==
    /\ pcP = "have_line"
    /\ pCall.fn = "get_user_input"
    /\ LET r == get_user_input(pLine, pCall.default, pCall.value_type)
       IN  /\ pResult' = r
           /\ pcP' = IF Len(r) = 0 THEN "await_input" ELSE "returned"
           /\ pLine' = IF Len(r) = 0 THEN << >> ELSE pLine
           /\ pLastReject' = IF Len(r) = 0 THEN "ValueError" ELSE pLastReject
    /\ UNCHANGED <<pCall, pPrompts>>
    /\ UNCHANGED <<renderVars, videoVars, extensionVars>>

\* The rest of the loop body of select_from_options: return, or print and loop.
select_from_options_loop ==
    /\ pcP = "have_line"
    /\ pCall.fn = "select_from_options"
    /\ LET r == select_from_options(pLine, pCall.options, pCall.default[1])
           c == get_user_input(pLine, pCall.default, "int")
       IN  /\ pResult' = r
           /\ pcP' = IF Len(r) = 0 THEN "await_input" ELSE "returned"
           /\ pLine' = IF Len(r) = 0 THEN << >> ELSE pLine
           /\ pLastReject' = IF Len(r) > 0 THEN pLastReject
                             ELSE IF Len(c) = 0 THEN "ValueError"
                             ELSE "out_of_range"
    /\ UNCHANGED <<pCall, pPrompts>>
    /\ UNCHANGED <<renderVars, videoVars, extensionVars>>

NextPrompt ==
    \/ input_line
    \/ get_user_input_loop
    \/ select_from_options_loop

vars == <<promptVars, renderVars, videoVars, extensionVars>>

SpecPrompt == InitPrompt /\ [][NextPrompt]_vars

Spec == Init /\ [][Next]_vars

\* ============================================ video utility (png_to_video.py)

\* str(n) for an int
RECURSIVE str_nat(_)
str_nat(n) ==
    IF n < 10 THEN <<DigitChars[n + 1]>>
    ELSE str_nat(n \div 10) \o <<DigitChars[(n % 10) + 1]>>

str_int(n) == IF n < 0 THEN <<"-">> \o str_nat(0 - n) ELSE str_nat(n)

\* s.endswith(suffix)
endswith(s, suffix) ==
    /\ Len(s) >= Len(suffix)
    /\ SubSeq(s, Len(s) - Len(suffix) + 1, Len(s)) = suffix

\* The extensions ensure_file_extension recognises.
KnownExtensions == {<<".", "m", "p", "4">>, <<".", "m", "k", "v">>,
                    <<".", "a", "v", "i">>, <<".", "m", "o", "v">>,
                    <<".", "w", "e", "b", "m">>}

DefaultExtension == <<".", "m", "p", "4">>

\* A plausible slip: the suffix test without lower().
ensure_file_extension_case_sensitive(name, default_extension) ==
    IF ~ \E ext \in KnownExtensions : endswith(name, ext)
    THEN name \o default_extension
    ELSE name

ensure_file_extension(name, default_extension) ==
    IF ~ \E ext \in KnownExtensions : endswith(lower(name), ext)
    THEN name \o default_extension
    ELSE name

\* The codec menu and codec_map.get(codec_choice, "libx264").
codecs == <<"H.264", "H.265", "VP9 (WebM)", "ProRes">>

codec_map(choice) ==
    CASE choice = "H.264"      -> <<"l", "i", "b", "x", "2", "6", "4">>
      [] choice = "H.265"      -> <<"l", "i", "b", "x", "2", "6", "5">>
      [] choice = "VP9 (WebM)" -> <<"l", "i", "b", "v", "p", "x", "-", "v", "p", "9">>
      [] choice = "ProRes"     -> <<"p", "r", "o", "r", "e", "s">>
      [] OTHER                 -> <<"l", "i", "b", "x", "2", "6", "4">>

\* The quality menu and quality_map.get(quality_choice, {...}).
quality_options == <<"very high", "high", "medium", "low">>

video_quality_map(choice) ==
    CASE choice = "very high" -> [preset |-> <<"s", "l", "o", "w">>, crf |-> 18]
      [] choice = "high"      -> [preset |-> <<"m", "e", "d", "i", "u", "m">>, crf |-> 20]
      [] choice = "medium"    -> [preset |-> <<"f", "a", "s", "t">>, crf |-> 23]
      [] choice = "low"       -> [preset |-> <<"u", "l", "t", "r", "a", "f", "a", "s", "t">>, crf |-> 28]
      [] OTHER                -> [preset |-> <<"m", "e", "d", "i", "u", "m">>, crf |-> 23]

\* A plausible slip: two independent tests, the first on the "lib" family,
\* so that H.265 gets the bitrate override too.
special_codec_args_by_family(c) ==
    IF c \in {<<"l", "i", "b", "v", "p", "x", "-", "v", "p", "9">>, <<"l", "i", "b", "x", "2", "6", "5">>}
    THEN <<<<"-", "b", ":", "v">>, <<"0">>>>
    ELSE IF c = <<"p", "r", "o", "r", "e", "s">>
    THEN <<<<"-", "p", "r", "o", "f", "i", "l", "e", ":", "v">>, <<"3">>>>
    ELSE << >>

\* The "special encoder settings" of create_video_from_pngs.
special_codec_args(c) ==
    IF c = <<"l", "i", "b", "v", "p", "x", "-", "v", "p", "9">>
    THEN <<<<"-", "b", ":", "v">>, <<"0">>>>
    ELSE IF c = <<"p", "r", "o", "r", "e", "s">>
    THEN <<<<"-", "p", "r", "o", "f", "i", "l", "e", ":", "v">>, <<"3">>>>
    ELSE << >>

\* The argument vector create_video_from_pngs hands to subprocess.run.
build_command(folder, out, fps, c, q) ==
    LET input_pattern == path_join(folder, <<"*", ".", "p", "n", "g">>)
    IN  << <<"f", "f", "m", "p", "e", "g">>,
           <<"-", "y">>,
           <<"-", "f", "r", "a", "m", "e", "r", "a", "t", "e">>, str_int(fps),
           <<"-", "p", "a", "t", "t", "e", "r", "n", "_", "t", "y", "p", "e">>, <<"g", "l", "o", "b">>,
           <<"-", "i">>, input_pattern,
           <<"-", "c", ":", "v">>, c,
           <<"-", "p", "r", "e", "s", "e", "t">>, q.preset,
           <<"-", "c", "r", "f">>, str_int(q.crf),
           <<"-", "p", "i", "x", "_", "f", "m", "t">>, <<"y", "u", "v", "4", "2", "0", "p">>,
           <<"-", "r">>, str_int(fps),
           <<"-", "m", "o", "v", "f", "l", "a", "g", "s">>, <<"+", "f", "a", "s", "t", "s", "t", "a", "r", "t">> >>
        \o special_codec_args(c)
        \o <<out>>

\* A plausible slip: the existence test left out.
folder_rejected_never(exists) == FALSE

\* if not os.path.exists(input_folder): ... return False
folder_rejected(exists) == ~exists

\* A plausible slip: "except FileNotFoundError: pass", so that main() goes on.
ffmpeg_probe_ignored(ended) ==
    CASE ended = "FileNotFoundError" -> "input_folder"
      [] ended = "OSError"           -> "crashed"
      [] OTHER                       -> "input_folder"

\* Where main() stands after the probe: in create_video_from_pngs at its
\* first prompt, returned (binary missing), or dead of an uncaught exception.
ffmpeg_probe(ended) ==
    CASE ended = "FileNotFoundError" -> "returned"
      [] ended = "OSError"           -> "crashed"
      [] OTHER                       -> "input_folder"

ProbeEndings == {"completed", "FileNotFoundError", "OSError"}

\* How subprocess.run(command) and the size query after it end.
RunEndings == {"returncode_0", "returncode_0_getsize_raises",
               "returncode_nonzero", "raises"}

VideoPrompts == {"input_folder", "output_file", "frame_rate", "codec",
                 "quality", "confirm", "restart"}

\* Lines the user types at the prompts of the video utility.
FolderAnswers == {<< >>, <<"d">>, <<"d", "/">>}

OutputAnswers == {<< >>, <<"a">>, <<"a", ".", "m", "k", "v">>, <<"a", ".", "M", "P", "4">>,
                  <<"a", ".", "m", "p">>, <<".", "w", "e", "b", "m">>}

FrameRateAnswers == {<< >>, <<"x">>, <<"2">>, <<"-", "1">>}

YesNoAnswers == {<< >>, <<"y">>, <<"Y">>, <<"n">>, <<" ", "y">>}

\* The run in progress: main() has been entered Len(probe) times.
Run == Len(probe)

\* The next prompt is displayed.
Display(prompt) ==
    /\ vpc' = prompt
    /\ prompted' = prompted \cup {<<Run, prompt>>}

InitVideo ==
    /\ PromptIdle
    /\ RenderIdle
    /\ ExtensionIdle
    /\ vpc = "main"
    /\ probe = << >>
    /\ prompted = {}
    /\ encodes = << >>
    /\ FreshLocals
    /\ videoExit = << >>

\* main(): the probe subprocess.run(["ffmpeg", "-version"]), and on success
\* the entry of create_video_from_pngs up to its first prompt.
main_probe ==
    /\ vpc = "main"
    /\ \E ended \in ProbeEndings :
         /\ probe' = Append(probe, ended)
         /\ encodes' = Append(encodes, 0)
         /\ vpc' = ffmpeg_probe(ended)
         /\ prompted' = IF ffmpeg_probe(ended) \in VideoPrompts
                        THEN prompted \cup {<<Run + 1, ffmpeg_probe(ended)>>}
                        ELSE prompted
         /\ videoExit' = IF ffmpeg_probe(ended) = "crashed" THEN <<1>> ELSE videoExit
    /\ input_folder' = << >>
    /\ folder_exists' = << >>
    /\ output_file' = << >>
    /\ frame_rate' = << >>
    /\ codec_choice' = "none"
    /\ codec' = << >>
    /\ quality_choice' = "none"
    /\ quality_settings' = << >>
    /\ command' = << >>
    /\ success' = << >>
    /\ UNCHANGED <<promptVars, renderVars, extensionVars>>

\* Step 1: the input folder and the existence test; on failure
\* create_video_from_pngs returns False and main() displays the restart prompt.
ask_input_folder ==
    /\ vpc = "input_folder"
    /\ \E line \in FolderAnswers, exists \in BOOLEAN :
         LET r == get_user_input(line, << >>, "str")
         IN  /\ Len(r[1]) = 0 => ~exists
             /\ input_folder' = r[1]
             /\ folder_exists' = <<exists>>
             /\ IF folder_rejected(exists)
                THEN /\ success' = <<FALSE>>
                     /\ Display("restart")
                ELSE /\ success' = success
                     /\ Display("output_file")
    /\ UNCHANGED <<probe, encodes, output_file, frame_rate, codec_choice, codec,
                   quality_choice, quality_settings, command, videoExit>>
    /\ UNCHANGED <<promptVars, renderVars, extensionVars>>

\* Step 2: the output path, with its extension ensured.
ask_output_file ==
    /\ vpc = "output_file"
    /\ \E line \in OutputAnswers :
         LET r == get_user_input(line, <<<<"o", "u", "t", "p", "u", "t", ".", "m", "p", "4">>>>, "str")
         IN  /\ output_file' = ensure_file_extension(r[1], DefaultExtension)
             /\ Display("frame_rate")
    /\ UNCHANGED <<probe, encodes, input_folder, folder_exists, frame_rate,
                   codec_choice, codec, quality_choice, quality_settings,
                   command, success, videoExit>>
    /\ UNCHANGED <<promptVars, renderVars, extensionVars>>

\* Step 3: the frame rate; a line that is not an int is asked again.
ask_frame_rate ==
    /\ vpc = "frame_rate"
    /\ \E line \in FrameRateAnswers :
         LET r == get_user_input(line, <<24>>, "int")
         IN  IF Len(r) = 0
             THEN UNCHANGED <<vpc, prompted, frame_rate>>
             ELSE /\ frame_rate' = r
                  /\ Display("codec")
    /\ UNCHANGED <<probe, encodes, input_folder, folder_exists, output_file,
                   codec_choice, codec, quality_choice, quality_settings,
                   command, success, videoExit>>
    /\ UNCHANGED <<promptVars, renderVars, extensionVars>>

\* Step 4: the codec menu.
ask_codec ==
    /\ vpc = "codec"
    /\ \E line \in MenuAnswers(Len(codecs)) :
         LET r == select_from_options(line, codecs, 1)
         IN  IF Len(r) = 0
             THEN UNCHANGED <<vpc, prompted, codec_choice, codec>>
             ELSE /\ codec_choice' = r[1]
                  /\ codec' = codec_map(r[1])
                  /\ Display("quality")
    /\ UNCHANGED <<probe, encodes, input_folder, folder_exists, output_file,
                   frame_rate, quality_choice, quality_settings,
                   command, success, videoExit>>
    /\ UNCHANGED <<promptVars, renderVars, extensionVars>>

\* Step 5: the quality menu, whose default is its second entry.
ask_quality ==
    /\ vpc = "quality"
    /\ \E line \in MenuAnswers(Len(quality_options)) :
         LET r == select_from_options(line, quality_options, 2)
         IN  IF Len(r) = 0
             THEN UNCHANGED <<vpc, prompted, quality_choice, quality_settings>>
             ELSE /\ quality_choice' = r[1]
                  /\ quality_settings' = <<video_quality_map(r[1])>>
                  /\ Display("confirm")
    /\ UNCHANGED <<probe, encodes, input_folder, folder_exists, output_file,
                   frame_rate, codec_choice, codec, command, success, videoExit>>
    /\ UNCHANGED <<promptVars, renderVars, extensionVars>>

\* Step 6: the confirmation; on "y" the argument vector is built, otherwise
\* create_video_from_pngs returns False.
ask_confirm ==
    /\ vpc = "confirm"
    /\ \E line \in YesNoAnswers :
         LET r == get_user_input(line, <<<<"y">>>>, "str")
         IN  IF lower(r[1]) # <<"y">>
             THEN /\ success' = <<FALSE>>
                  /\ command' = command
                  /\ Display("restart")
             ELSE /\ command' = build_command(input_folder, output_file,
                                              frame_rate[1], codec,
                                              quality_settings[1])
                  /\ success' = success
                  /\ vpc' = "subprocess_run"
                  /\ prompted' = prompted
    /\ UNCHANGED <<probe, encodes, input_folder, folder_exists, output_file,
                   frame_rate, codec_choice, codec, quality_choice,
                   quality_settings, videoExit>>
    /\ UNCHANGED <<promptVars, renderVars, extensionVars>>

\* Step 7: subprocess.run(command); True only for return code 0 with the
\* size query succeeding, False for a non-zero code or any Exception.
subprocess_run ==
    /\ vpc = "subprocess_run"
    /\ \E ended \in RunEndings :
         /\ encodes' = [encodes EXCEPT ![Run] = @ + 1]
         /\ success' = <<ended = "returncode_0">>
    /\ Display("restart")
    /\ UNCHANGED <<probe, input_folder, folder_exists, output_file, frame_rate,
                   codec_choice, codec, quality_choice, quality_settings,
                   command, videoExit>>
    /\ UNCHANGED <<promptVars, renderVars, extensionVars>>

\* main(): "create another video?": on y / Y main() calls itself, otherwise
\* it returns.
ask_restart ==
    /\ vpc = "restart"
    /\ \E line \in YesNoAnswers :
         LET r == get_user_input(line, <<<<"n">>>>, "str")
         IN  IF lower(r[1]) = <<"y">>
             THEN Run < MaxRuns /\ vpc' = "main"
             ELSE vpc' = "returned"
    /\ UNCHANGED <<probe, prompted, encodes, input_folder, folder_exists,
                   output_file, frame_rate, codec_choice, codec, quality_choice,
                   quality_settings, command, success, videoExit>>
    /\ UNCHANGED <<promptVars, renderVars, extensionVars>>

\* Ctrl-C at a prompt or during the encode reaches "except KeyboardInterrupt"
\* of main(): sys.exit(0). The end of standard input at a prompt is an
\* EOFError nothing catches: the interpreter ends with code 1.
input_interrupted ==
    /\ \E exc \in {"KeyboardInterrupt", "EOFError"} :
         /\ vpc \in VideoPrompts \/ (vpc = "subprocess_run" /\ exc = "KeyboardInterrupt")
         /\ videoExit' = IF exc = "KeyboardInterrupt" THEN <<0>> ELSE <<1>>
    /\ vpc' = "exited"
    /\ UNCHANGED <<probe, prompted, encodes, input_folder, folder_exists,
                   output_file, frame_rate, codec_choice, codec, quality_choice,
                   quality_settings, command, success>>
    /\ UNCHANGED <<promptVars, renderVars, extensionVars>>

NextVideo ==
    \/ main_probe
    \/ ask_input_folder
    \/ ask_output_file
    \/ ask_frame_rate
    \/ ask_codec
    \/ ask_quality
    \/ ask_confirm
    \/ subprocess_run
    \/ ask_restart
    \/ input_interrupted

SpecVideo == InitVideo /\ [][NextVideo]_vars


\* ------------------------- SpecExtension: ensure_file_extension, any name

\* Characters of the names: enough for .mp4 and .mkv in either case, and for
\* names that only resemble them.
NameAlphabet == {".", "m", "p", "4", "P", "k", "v"}

Filenames == UNION {[1..n -> NameAlphabet] : n \in 0..MaxNameLen}

InitExtension ==
    /\ PromptIdle
    /\ RenderIdle
    /\ VideoIdle
    /\ filename \in Filenames
    /\ once = << >>
    /\ twice = << >>

\* output_file = ensure_file_extension(output_file)
normalise_once ==
    /\ Len(once) = 0
    /\ once' = <<ensure_file_extension(filename, DefaultExtension)>>
    /\ UNCHANGED <<filename, twice>>
    /\ UNCHANGED <<promptVars, renderVars, videoVars>>

\* The same call on its own result.
normalise_twice ==
    /\ Len(once) = 1
    /\ Len(twice) = 0
    /\ twice' = <<ensure_file_extension(once[1], DefaultExtension)>>
    /\ UNCHANGED <<filename, once>>
    /\ UNCHANGED <<promptVars, renderVars, videoVars>>

NextExtension ==
    \/ normalise_once
    \/ normalise_twice

SpecExtension == InitExtension /\ [][NextExtension]_vars

\* ================================================================== claims

\* get_custom_config has returned to main().
CustomReturned ==
    /\ mode = "custom"
    /\ pc \notin CustomSteps \cup {"select_mode", "get_custom_config"}
    /\ raisedIn # "get_custom_config"

\* One of the three construction modes has returned a configuration to main().
ConfigReturned ==
    \/ pc \in {"apply_config", "confirm", "render_frames", "returned"}
    \/ pc = "exited" /\ raisedIn \in {"apply_config", "confirm", "render_frames"}

\* apply_config has run to its last statement (os.makedirs, which may raise).
Applied ==
    \/ pc \in {"confirm", "render_frames", "returned"}
    \/ pc = "exited" /\ raisedIn \in {"apply_config", "confirm", "render_frames"}

RealTimeEngines == {"BLENDER_EEVEE", "BLENDER_EEVEE_NEXT"}

\* ------------------------------------------------------------------- C1
\* C1: with the ray-trace engine chosen and an empty device list from the
\* host, the device-choice step can complete: some line the user may type is
\* accepted by the menu (and the selection then falls back to CPU).
C1_EmptyDeviceListCompletes ==
    (pc = "device_type" /\ host[1].devices = << >>) =>
        \E line \in Lines :
            LET devices == get_device_info(prefs.devices)
                device_options == [i \in 1..Len(devices) |-> DeviceLabel(devices[i])]
            IN  Len(select_from_options(line, device_options, 1)) > 0

\* ------------------------------------------------------------------- C5
\* C5: the FFmpeg prompts are displayed only under file_format FFMPEG and the
\* effect-toggle prompts only under a real-time engine; and once
\* get_custom_config has returned, all three FFmpeg prompts were displayed
\* exactly when the format is FFMPEG (whatever the engine) and all four toggle
\* prompts exactly when the engine is a real-time one (whatever the format).
C5_BranchesIndependent ==
    /\ asked \cap FfmpegSteps # {} => config["file_format"] = "FFMPEG"
    /\ asked \cap ToggleSteps # {} => config["render_engine"] \in RealTimeEngines
    /\ CustomReturned =>
          /\ IF config["file_format"] = "FFMPEG"
             THEN FfmpegSteps \subseteq asked
             ELSE asked \cap FfmpegSteps = {}
          /\ IF config["render_engine"] \in RealTimeEngines
             THEN ToggleSteps \subseteq asked
             ELSE asked \cap ToggleSteps = {}

\* C5 witness: a real-time engine with the FFMPEG format, both sets displayed.
C5_Witness ==
    /\ CustomReturned
    /\ config["render_engine"] = "BLENDER_EEVEE"
    /\ config["file_format"] = "FFMPEG"
    /\ (ToggleSteps \cup FfmpegSteps) \subseteq asked

\* ------------------------------------------------------------------- C7
\* C7: a configuration returned by get_blend_config, get_default_config or
\* get_custom_config holds every key of DEFAULT_CONFIG, and DEFAULT_CONFIG is
\* at all times the dictionary the module defines.
C7_NoPartialConfig ==
    /\ DEFAULT_CONFIG = DefaultConfig
    /\ ConfigReturned => DOMAIN DefaultConfig \subseteq DOMAIN config

\* C7 witness: the interactive build returned a configuration that differs
\* from the defaults, with the keys of the branch it did not take.
C7_Witness ==
    /\ mode = "custom"
    /\ pc = "apply_config"
    /\ config["render_engine"] = "BLENDER_EEVEE_NEXT"
    /\ config["output_dir"] = <<"o">>
    /\ config["eevee_bloom"] = FALSE
    /\ config["samples"] = DefaultConfig["samples"]

\* ------------------------------------------------------------------- C8
\* C8: an answer other than y / Y at the confirmation ends the process with
\* code 0; an exception raised anywhere under the try of main() ends it with
\* code 1; a decline never ends with code 1.
C8_ExitCodes ==
    /\ (Len(confirm) = 1 /\ confirm[1] \notin {<<"y">>, <<"Y">>}) =>
          (pc = "exited" /\ outcome = "declined" /\ exitCode = <<0>>)
    /\ outcome = "raised" => (pc = "exited" /\ exitCode = <<1>>)
    /\ outcome = "declined" => exitCode # <<1>>

\* C8 witness: the answer " y" (not stripped) declined, and the code is 0.
C8_Witness ==
    /\ confirm = << <<" ", "y">> >>
    /\ outcome = "declined"
    /\ exitCode = <<0>>

\* ------------------------------------------------------------------- C4
\* C4: when the directory entered at the first prompt of the video utility
\* does not exist, create_video_from_pngs has returned False and the run
\* makes no encoder invocation (no argument vector is even built, and the
\* only prompt that follows is the restart prompt of main()).
C4_MissingDirectoryFails ==
    folder_exists = <<FALSE>> =>
        /\ success = <<FALSE>>
        /\ encodes[Run] = 0
        /\ command = << >>
        /\ vpc \in {"restart", "main", "returned", "exited"}
        /\ {q[2] : q \in {e \in prompted : e[1] = Run}} \subseteq {"input_folder", "restart"}

\* C4 witness: a non-empty directory name that does not exist, in a restarted
\* run whose predecessor did encode; main() has returned.
C4_Witness ==
    /\ folder_exists = <<FALSE>>
    /\ input_folder = <<"d">>
    /\ Run = 2
    /\ encodes = <<1, 0>>
    /\ vpc = "returned"

\* ------------------------------------------------------------------- C6
\* `pair` occurs in `cmd` as two consecutive arguments.
HasPair(cmd, pair) ==
    \E i \in 1..(Len(cmd) - 1) : cmd[i] = pair[1] /\ cmd[i + 1] = pair[2]

\* C6: the argument vector holds "-b:v 0" exactly when the chosen codec is
\* VP9 and "-profile:v 3" exactly when it is ProRes; under H.264 and H.265 it
\* is the twenty common arguments followed by the output path; in every case
\* the arguments between the common ones and the last are one of those two
\* pairs or nothing, and the last argument is the output path.
C6_CodecArguments ==
    Len(command) > 0 =>
        /\ command[Len(command)] = output_file
        /\ HasPair(command, <<<<"-", "b", ":", "v">>, <<"0">>>>) <=> codec_choice = "VP9 (WebM)"
        /\ HasPair(command, <<<<"-", "p", "r", "o", "f", "i", "l", "e", ":", "v">>, <<"3">>>>) <=> codec_choice = "ProRes"
        /\ codec_choice \in {"H.264", "H.265"} => Len(command) = 21
        /\ SubSeq(command, 1, 2) = <<<<"f", "f", "m", "p", "e", "g">>, <<"-", "y">>>>
        /\ command[20] = <<"+", "f", "a", "s", "t", "s", "t", "a", "r", "t">>
        /\ SubSeq(command, 21, Len(command) - 1) =
              CASE codec_choice = "VP9 (WebM)" -> <<<<"-", "b", ":", "v">>, <<"0">>>>
                [] codec_choice = "ProRes"     -> <<<<"-", "p", "r", "o", "f", "i", "l", "e", ":", "v">>, <<"3">>>>
                [] OTHER                       -> << >>

\* C6 witness: VP9 chosen, the vector handed to the encoder ends with the
\* bitrate override and the output path.
C6_Witness ==
    /\ codec_choice = "VP9 (WebM)"
    /\ encodes[Run] = 1
    /\ Len(command) = 23
    /\ SubSeq(command, 21, 23) = <<<<"-", "b", ":", "v">>, <<"0">>, <<"a", ".", "m", "k", "v">>>>

\* ------------------------------------------------------------------- C9
\* C9: in a run of main() whose probe found no encoder binary, no prompt is
\* displayed and no encode is invoked, and main() has returned.
C9_MissingBinaryEndsBeforePrompts ==
    \A r \in 1..Run :
        probe[r] = "FileNotFoundError" =>
            /\ vpc = "returned"
            /\ r = Run
            /\ encodes[r] = 0
            /\ ~ \E e \in prompted : e[1] = r
            /\ videoExit = << >>

\* C9 witness: the binary is missing from the first run on.
C9_Witness ==
    /\ probe = <<"FileNotFoundError">>
    /\ vpc = "returned"
    /\ prompted = {}
    /\ encodes = <<0>>

\* ------------------------------------------------------------------ C10
\* C10: after apply_config ran with the ray-trace engine on a host that has
\* the cycles preferences, the operations were: the backend type (NONE for
\* CPU, else the selected type), then the refresh, then `use` on each device
\* of the refreshed list; and a device is active iff its type is the
\* selected one.
C10_DeviceSelection ==
    (Applied /\ config["render_engine"] = "CYCLES" /\ host[1].hasCycles) =>
        LET device_type == config["device_type"]
            found == host[1].devices
        IN  /\ prefs.compute_device_type =
                  IF device_type = "CPU" THEN "NONE" ELSE device_type
            /\ applyLog = <<"compute_device_type", "get_devices">>
                              \o [i \in 1..Len(found) |-> "use"]
            /\ Len(prefs.devices) = Len(found)
            /\ \A i \in 1..Len(found) :
                  /\ prefs.devices[i].name = found[i].name
                  /\ prefs.devices[i].type = found[i].type
                  /\ prefs.devices[i].use = (found[i].type = device_type)

\* C10 witness: CPU selected among three devices that were all active: the
\* backend is NONE, the CPU stays active and the two GPUs are switched off.
C10_Witness ==
    /\ Applied
    /\ config["render_engine"] = "CYCLES"
    /\ config["device_type"] = "CPU"
    /\ Len(host[1].devices) = 3
    /\ \A i \in 1..3 : host[1].devices[i].use
    /\ prefs.compute_device_type = "NONE"
    /\ prefs.devices[1].use /\ ~prefs.devices[2].use /\ ~prefs.devices[3].use

\* ------------------------------------------------------------------ C11
\* Some recognised extension is the tail of `name`, compared character by
\* character without regard to case.
EndsInKnownExtension(name) ==
    \E ext \in KnownExtensions :
        /\ Len(name) >= Len(ext)
        /\ \A i \in 1..Len(ext) :
              LowerChar(name[Len(name) - Len(ext) + i]) = ext[i]

\* C11: ensure_file_extension with the default extension returns a name that
\* ends (in any case) in .mp4/.mkv/.avi/.mov/.webm unchanged, appends .mp4 to
\* any other name, and applied to its own result returns that result.
C11_ExtensionIdempotent ==
    /\ Len(once) = 1 =>
          once[1] = IF EndsInKnownExtension(filename)
                    THEN filename
                    ELSE filename \o <<".", "m", "p", "4">>
    /\ Len(twice) = 1 => twice[1] = once[1]

\* C11 witness: a mixed-case extension kept as it is, twice.
C11_Witness ==
    /\ filename = <<"k", ".", "m", "P", "4">>
    /\ once = <<filename>>
    /\ twice = <<filename>>

\* C11 witness for the appending case: a near-miss name gets .mp4 once only.
C11_WitnessAppended ==
    /\ filename = <<".", "m", "p">>
    /\ once = <<<<".", "m", "p", ".", "m", "p", "4">>>>
    /\ twice = once

\* ------------------------------------------------------------------ C12
\* What scene.render.ffmpeg.constant_rate_factor held before apply_config:
\* the value of the .blend scene once get_blend_config has read the scene,
\* nothing the program knows of otherwise.
RateFactorBeforeApply ==
    IF mode = "blend" THEN "HIGH" ELSE "untouched"

\* C12: after apply_config, under file_format FFMPEG the rate factor of the
\* scene is 0 / 18 / 20 / 23 / 28 for the tiers LOSSLESS / PERC_LOSSLESS /
\* HIGH / MEDIUM / LOW and 23 for any other tier; under any other format the
\* rate factor is the one the scene had before.
C12_QualityFactorTotal ==
    Applied =>
        IF config["file_format"] = "FFMPEG"
        THEN LET tier == config["ffmpeg_quality"]
                 written == scene.ffmpeg_constant_rate_factor
             IN  /\ written \in {0, 18, 20, 23, 28}
                 /\ tier = "LOSSLESS" => written = 0
                 /\ tier = "PERC_LOSSLESS" => written = 18
                 /\ tier = "HIGH" => written = 20
                 /\ tier = "MEDIUM" => written = 23
                 /\ tier = "LOW" => written = 28
                 /\ tier \notin {"LOSSLESS", "PERC_LOSSLESS", "HIGH", "MEDIUM", "LOW"}
                       => written = 23
        ELSE scene.ffmpeg_constant_rate_factor = RateFactorBeforeApply

\* C12 witness: a .blend scene whose tier is outside the table was applied
\* with the fallback factor.
C12_Witness ==
    /\ Applied
    /\ mode = "blend"
    /\ config["file_format"] = "FFMPEG"
    /\ config["ffmpeg_quality"] = "VERYLOW"
    /\ scene.ffmpeg_constant_rate_factor = 23

\* C12 witnesses for the table and for the format that writes nothing.
C12_WitnessLossless ==
    /\ Applied
    /\ mode = "custom"
    /\ config["file_format"] = "FFMPEG"
    /\ config["ffmpeg_quality"] = "LOSSLESS"
    /\ scene.ffmpeg_constant_rate_factor = 0

C12_WitnessNotWritten ==
    /\ Applied
    /\ mode = "custom"
    /\ config["file_format"] = "PNG"
    /\ config["ffmpeg_quality"] = "MEDIUM"
    /\ scene.ffmpeg_constant_rate_factor = "untouched"

\* ------------------------------------------------------------------ C13
\* The configuration keys by the part of get_blend_config that may read them.
NeverReadKeys == {"start_frame", "end_frame", "color_mode", "denoiser", "device_type"}

RayTraceKeys == {"samples", "tile_size", "max_bounces", "noise_threshold",
                 "denoising_samples"}

RealTimeKeys == {"eevee_samples"} \cup ToggleSteps

\* The keys get_blend_config did not read from the scene it was given.
KeysNotRead ==
    NeverReadKeys
        \cup (IF scene.engine = "CYCLES" THEN {} ELSE RayTraceKeys)
        \cup (IF scene.engine \in RealTimeEngines THEN {} ELSE RealTimeKeys)
        \cup (IF scene.file_format = "FFMPEG" THEN {} ELSE FfmpegSteps)

\* get_blend_config has returned and apply_config has not yet written the
\* scene, so that `scene` is still the one get_blend_config read.
BlendReturned == mode = "blend" /\ pc = "apply_config"

\* C13: in the configuration get_blend_config returns, every key it did not
\* read from the scene holds its DEFAULT_CONFIG value, whatever the scene
\* holds: the five keys it never reads, the keys of the engine that is not
\* active, and the FFmpeg keys under another format. The configuration is not
\* changed after its return.
C13_UnreadKeysKeepDefaults ==
    /\ BlendReturned => \A k \in KeysNotRead : config[k] = DefaultConfig[k]
    /\ (mode = "blend" /\ ConfigReturned) =>
          /\ \A k \in NeverReadKeys : config[k] = DefaultConfig[k]
          /\ config["render_engine"] # "CYCLES" =>
                \A k \in RayTraceKeys : config[k] = DefaultConfig[k]
          /\ config["render_engine"] \notin RealTimeEngines =>
                \A k \in RealTimeKeys : config[k] = DefaultConfig[k]
          /\ config["file_format"] # "FFMPEG" =>
                \A k \in FfmpegSteps : config[k] = DefaultConfig[k]

\* C13 witness: a scene of an engine that is neither family, whose values all
\* differ from the defaults: both engine key sets and the frame range are the
\* built-in ones, while the resolution is the scene's.
C13_Witness ==
    /\ BlendReturned
    /\ scene.engine = "BLENDER_WORKBENCH"
    /\ scene.file_format = "FFMPEG"
    /\ scene.cycles_samples # DefaultConfig["samples"]
    /\ scene.eevee_use_bloom # DefaultConfig["eevee_bloom"]
    /\ scene.frame_start # DefaultConfig["start_frame"]
    /\ config["samples"] = DefaultConfig["samples"]
    /\ config["eevee_bloom"] = DefaultConfig["eevee_bloom"]
    /\ config["start_frame"] = DefaultConfig["start_frame"]
    /\ config["resolution_x"] = scene.resolution_x
    /\ config["resolution_x"] # DefaultConfig["resolution_x"]
    /\ config["ffmpeg_codec"] = scene.ffmpeg_codec

\* ------------------------------------------------------------------- C2
InSelect == pcP = "have_line" /\ pCall.fn = "select_from_options"

\* C2: in select_from_options over n options, an entered integer k outside
\* [1, n] is rejected and the prompt is issued again, and an entered integer k
\* with 1 <= k <= n makes the call return options[k] (1-indexed: the option
\* value, never the index), whatever was rejected before it.
C2_SelectReturnsChosenOption ==
    /\ [][(InSelect /\ int_ok(pLine)) =>
            LET k == int_val(pLine)
            IN  IF 1 <= k /\ k <= Len(pCall.options)
                THEN pcP' = "returned" /\ pResult' = <<pCall.options[k]>>
                ELSE pcP' = "await_input" /\ pResult' = << >>]_vars
    /\ [](pcP = "returned" /\ pCall.fn = "select_from_options" =>
            \E i \in 1..Len(pCall.options) : pResult = <<pCall.options[i]>>)

\* C2 witness: an out-of-range entry was rejected, then entry 2 returned the
\* second option.
C2_Witness ==
    /\ pcP = "returned"
    /\ pCall.fn = "select_from_options"
    /\ pLastReject = "out_of_range"
    /\ pPrompts >= 2
    /\ int_ok(pLine) /\ int_val(pLine) = 2
    /\ pResult = <<"opt_b">>

\* ------------------------------------------------------------------- C3
InNumericGet ==
    /\ pcP = "have_line"
    /\ pCall.fn = "get_user_input"
    /\ pCall.value_type \in {"int", "float"}

Returns(v) == pcP' = "returned" /\ pResult' = v

PromptsAgain == pcP' = "await_input" /\ pResult' = << >>

====
